---- MODULE Spec2Model ----
(***************************************************************************)
(* A model of three parts of the ORC reader:                               *)
(*   - Column::children          (src/src/column.rs), schema resolution;   *)
(*   - Stripe::new and StreamMap (src/src/stripe.rs), stripe assembly;     *)
(*   - ListArrayDecoder          (src/src/arrow_reader/decoder/list.rs).   *)
(* Each part has its own specification over the shared variables; the      *)
(* variables of the other parts stay at their idle values.                 *)
(***************************************************************************)
EXTENDS Integers, Sequences, FiniteSets, TLC

VARIABLES
    column,        \* the Column whose children are being derived
    childrenRes,   \* the Result of Column::children, or NotCalled
    info,          \* the StripeMetadata handed to Stripe::new
    file,          \* what the ChunkReader serves: its length and the footer it holds
    stripe,        \* the Result of Stripe::new, or NotCalled
    readLog,       \* the byte ranges requested from the reader, in order
    ctor,          \* the outcome of ListArrayDecoder::new and its stream lookups
    build,         \* the build configuration: debug assertions on or off
    decoder,       \* the ListArrayDecoder: its streams and their cursors
    last,          \* the last next_batch call: arguments, derived values, outcome
    hist,          \* totals over the calls made so far
    rowsIn,        \* the rows that were encoded (round trip)
    out            \* the rows decoded so far

colVars == <<column, childrenRes>>

stripeVars == <<info, file, stripe, readLog, ctor>>

listVars == <<build, decoder, last, hist, rowsIn, out>>

vars == <<column, childrenRes, info, file, stripe, readLog, ctor,
          build, decoder, last, hist, rowsIn, out>>

----------------------------------------------------------------------------
(* Bounds *)

\* Largest number of struct fields / union variants enumerated.
MaxArity == 2

\* Largest number of entries in a stripe footer's stream directory.
MaxStreams == 2

\* Largest byte length of one stream.
MaxStreamLen == 1

\* Largest stripe offset and index section length.
MaxSection == 1

\* Largest data section length recorded in the stripe metadata.
MaxData == 2

\* Largest number of rows asked of a list decoder over arbitrary streams.
MaxRows == 2

\* Largest number of rows of an encoded list column (round trip).
MaxEncodedRows == 4

\* Largest length of one list.
MaxLenVal == 2

----------------------------------------------------------------------------
(* Generic helpers *)

SeqsUpTo(S, n) == UNION {[1..k -> S] : k \in 0..n}

Min(a, b) == IF a < b THEN a ELSE b

\* Result<T>: Ok(v) or an error kind of crate::error.
Ok(v) == [ok |-> TRUE, err |-> "", val |-> v]

Fail(kind) == [ok |-> FALSE, err |-> kind, val |-> <<>>]

----------------------------------------------------------------------------
(* Schema resolver: Column and Column::children *)

\* The leaf variants of crate::schema::DataType (no children).
LeafKinds ==
    {"Boolean", "Byte", "Short", "Int", "Long", "Float", "Double", "String",
     "Varchar", "Char", "Binary", "Decimal", "Timestamp",
     "TimestampWithLocalTimezone", "Date"}

OrcLeaf(k) == [kind |-> k]

\* Element types used below composite ORC nodes.
OrcChildTypes == {OrcLeaf("Int"), OrcLeaf("String")}

\* A named child of an ORC struct (col.name(), col.data_type()).
OrcNamedCols ==
    {[name |-> "a", data_type |-> OrcLeaf("Int")],
     [name |-> "b", data_type |-> OrcLeaf("String")]}

OrcTypes ==
    {OrcLeaf(k) : k \in LeafKinds}
    \cup {[kind |-> "Struct", children |-> cs] : cs \in SeqsUpTo(OrcNamedCols, MaxArity)}
    \cup {[kind |-> "List", child |-> c] : c \in OrcChildTypes}
    \cup {[kind |-> "Map", key |-> k, value |-> v] : k \in OrcChildTypes, v \in OrcChildTypes}
    \cup {[kind |-> "Union", variants |-> vs] : vs \in SeqsUpTo(OrcChildTypes, MaxArity)}

\* Arrow fields (name, data type) used below composite Arrow types.
ArrowLeafFields ==
    {[name |-> "x", ty |-> [t |-> "Int32"]],
     [name |-> "y", ty |-> [t |-> "Utf8"]]}

ArrowStructTypes ==
    {[t |-> "Struct", fields |-> fs] : fs \in SeqsUpTo(ArrowLeafFields, MaxArity + 1)}

\* The entries field of an Arrow map: a struct of any arity, or a non-struct.
ArrowEntryFields ==
    {[name |-> "entries", ty |-> ty] : ty \in ArrowStructTypes \cup {[t |-> "Int32"]}}

\* (type id, field) pairs of an Arrow union; type ids are i8.
ArrowUnionFields ==
    {[id |-> i, field |-> f] : i \in -1..MaxArity, f \in ArrowLeafFields}

ArrowTypes ==
    {[t |-> "Int32"], [t |-> "Utf8"]}
    \cup ArrowStructTypes
    \cup {[t |-> "List", field |-> f] : f \in ArrowLeafFields}
    \cup {[t |-> "LargeList", field |-> f] : f \in ArrowLeafFields}
    \cup {[t |-> "Map", entries |-> e, sorted |-> s] : e \in ArrowEntryFields, s \in BOOLEAN}
    \cup {[t |-> "Union", fields |-> fs] : fs \in SeqsUpTo(ArrowUnionFields, MaxArity)}

\* Column::new: the struct of column.rs lines 17-25.
NewColumn(name, data_type, footer, number_of_rows, field) ==
    [number_of_rows |-> number_of_rows, footer |-> footer, name |-> name,
     data_type |-> data_type, field |-> field]

\* Struct arm: children.iter().zip(fields.iter().cloned()).map(..).collect()
StructChildren(self, children, fields) ==
    [i \in 1..Min(Len(children), Len(fields)) |->
        NewColumn(children[i].name, children[i].data_type, self.footer,
                  self.number_of_rows, fields[i])]

\* A faulty variant of MapChildren: the entry shape is examined before the
\* sorted flag.
MapChildrenSortedLast(self, key, value, entries, sorted) ==
    IF entries.ty.t # "Struct" THEN Fail("Unexpected")
    ELSE IF Len(entries.ty.fields) # 2 THEN Fail("Unexpected")
    ELSE IF sorted THEN Fail("UnsupportedTypeVariant")
    ELSE Ok(<<NewColumn("key", key, self.footer, self.number_of_rows,
                        entries.ty.fields[1]),
              NewColumn("value", value, self.footer, self.number_of_rows,
                        entries.ty.fields[2])>>)

\* Map arm, after the let-else on ArrowDataType::Map(entries, sorted).
MapChildren(self, key, value, entries, sorted) ==
    IF sorted THEN Fail("UnsupportedTypeVariant")
    ELSE IF entries.ty.t # "Struct" THEN Fail("Unexpected")
    ELSE IF Len(entries.ty.fields) # 2 THEN Fail("Unexpected")
    ELSE Ok(<<NewColumn("key", key, self.footer, self.number_of_rows,
                        entries.ty.fields[1]),
              NewColumn("value", value, self.footer, self.number_of_rows,
                        entries.ty.fields[2])>>)

\* format!("{index}") for the indices that occur.
IndexName(index) ==
    CASE index = 0 -> "0" [] index = 1 -> "1" [] index = 2 -> "2"
      [] index = 3 -> "3" [] OTHER -> "4"

\* Union arm: variants.iter().enumerate().zip(fields.iter()) with the ensure!
\* on index == index2, collected into a Result (the first failure wins).
UnionChildren(self, variants, fields) ==
    LET n == Min(Len(variants), Len(fields)) IN
    IF \E i \in 1..n : (i - 1) # fields[i].id
    THEN Fail("MismatchedSchema")
    ELSE Ok([i \in 1..n |->
                NewColumn(IndexName(i - 1), variants[i], self.footer,
                          self.number_of_rows, fields[i].field)])

\* Column::children
Children(self) ==
    LET dt == self.data_type
        field_type == self.field.ty
    IN  CASE dt.kind \in LeafKinds -> Ok(<<>>)
          [] dt.kind = "Struct" ->
                IF field_type.t = "Struct"
                THEN Ok(StructChildren(self, dt.children, field_type.fields))
                ELSE Fail("MismatchedSchema")
          [] dt.kind = "List" ->
                IF field_type.t = "List"
                THEN Ok(<<NewColumn("item", dt.child, self.footer,
                                    self.number_of_rows, field_type.field)>>)
                ELSE Fail("MismatchedSchema")
          [] dt.kind = "Map" ->
                IF field_type.t # "Map"
                THEN Fail("MismatchedSchema")
                ELSE MapChildren(self, dt.key, dt.value, field_type.entries,
                                 field_type.sorted)
          [] dt.kind = "Union" ->
                IF field_type.t = "Union"
                THEN UnionChildren(self, dt.variants, field_type.fields)
                ELSE Fail("MismatchedSchema")

NotCalled == [ok |-> FALSE, err |-> "NotCalled", val |-> <<>>]

\* The columns the resolver is exercised on: every pairing of a logical type
\* with an output field.
Columns ==
    {NewColumn("c", dt, "footer", 1, [name |-> "c", ty |-> ft]) :
        dt \in OrcTypes, ft \in ArrowTypes}

----------------------------------------------------------------------------
(* Stripe assembly: StripeMetadata, Stripe::new, StreamMap *)

\* StripeMetadata::footer_offset
footer_offset(i) == i.offset + i.index_length + i.data_length

\* proto::stream::Kind, the kinds the decoders below look up.
Kinds == {"Present", "Length", "Data"}

\* Column ids of the stripe: 1 is the list column, 2 its element column.
ColumnIds == {1, 2}

\* One entry of the footer's stream directory (proto::Stream).
StreamEntries ==
    {[column |-> c, kind |-> k, length |-> n] :
        c \in ColumnIds, k \in Kinds, n \in 0..MaxStreamLen}

\* ChunkReader::get_bytes(offset, length). The reader is a collaborator: it
\* serves a range that lies inside the file, unless this is the request the
\* storage fails on (fault counts requests from 1; 0 means no failure). The
\* bytes served are identified by the range they come from.
get_bytes(f, nth, fault, offset, length) ==
    IF nth = fault \/ offset + length > f.len
    THEN Fail("Io")
    ELSE Ok([offset |-> offset, length |-> length])

\* deserialize_stripe_footer: decompression may fail (Io), decoding the
\* protobuf may fail (DecodeProto).
deserialize_stripe_footer(footer) ==
    CASE footer.state = "bad_compression" -> Fail("Io")
      [] footer.state = "bad_proto" -> Fail("DecodeProto")
      [] OTHER -> Ok(footer.streams)

\* HashMap::insert: a later value replaces an earlier one under the same key.
Insert(map, key, data) ==
    [x \in DOMAIN map \cup {key} |-> IF x = key THEN data ELSE map[x]]

\* A faulty variant of NextStreamOffset: the offset is not advanced.
NextStreamOffsetStuck(stream_offset, length) == stream_offset

\* stream_offset += length
NextStreamOffset(stream_offset, length) == stream_offset + length

\* The loop of Stripe::new over footer.streams, from entry i on. It returns
\* the map, the log of requested ranges, and whether every read succeeded.
RECURSIVE ReadStreams(_, _, _, _, _, _, _)
ReadStreams(f, fault, streams, i, stream_offset, map, log) ==
    IF i > Len(streams)
    THEN [ok |-> TRUE, map |-> map, log |-> log]
    ELSE LET stream == streams[i]
             data == get_bytes(f, Len(log) + 1, fault, stream_offset, stream.length)
             log2 == Append(log, [offset |-> stream_offset, length |-> stream.length,
                                  ok |-> data.ok])
         IN  IF ~data.ok
             THEN [ok |-> FALSE, map |-> map, log |-> log2]
             ELSE ReadStreams(f, fault, streams, i + 1,
                              NextStreamOffset(stream_offset, stream.length),
                              Insert(map, <<stream.column, stream.kind>>, data.val),
                              log2)

\* A faulty variant of StripeNew: the stream lengths are checked against the
\* data section length before the streams are read.
StripeNewChecked(i, f, fault) ==
    LET raw == get_bytes(f, 1, fault, footer_offset(i), i.footer_length)
        log1 == <<[offset |-> footer_offset(i), length |-> i.footer_length,
                   ok |-> raw.ok]>>
        footer == deserialize_stripe_footer(f.footer)
        Sum[k \in 0..MaxStreams + 1] ==
            IF k = 0 \/ k > Len(f.footer.streams) THEN 0
            ELSE Sum[k - 1] + f.footer.streams[k].length
    IN  IF ~raw.ok THEN [res |-> Fail("Io"), log |-> log1]
        ELSE IF ~footer.ok THEN [res |-> Fail(footer.err), log |-> log1]
        ELSE IF Sum[Len(footer.val)] # i.data_length
        THEN [res |-> Fail("Unexpected"), log |-> log1]
        ELSE LET r == ReadStreams(f, fault, footer.val, 1, i.offset, <<>>, log1)
             IN  IF ~r.ok THEN [res |-> Fail("Io"), log |-> r.log]
                 ELSE [res |-> Ok([footer |-> footer.val, stream_map |-> r.map,
                                   number_of_rows |-> i.number_of_rows]),
                       log |-> r.log]

\* Stripe::new: the footer is read and deserialized, then every stream of its
\* directory is read at the accumulated offset and inserted into the map.
StripeNew(i, f, fault) ==
    LET raw == get_bytes(f, 1, fault, footer_offset(i), i.footer_length)
        log1 == <<[offset |-> footer_offset(i), length |-> i.footer_length,
                   ok |-> raw.ok]>>
        footer == deserialize_stripe_footer(f.footer)
    IN  IF ~raw.ok THEN [res |-> Fail("Io"), log |-> log1]
        ELSE IF ~footer.ok THEN [res |-> Fail(footer.err), log |-> log1]
        ELSE LET r == ReadStreams(f, fault, footer.val, 1, i.offset, <<>>, log1)
             IN  IF ~r.ok THEN [res |-> Fail("Io"), log |-> r.log]
                 ELSE [res |-> Ok([footer |-> footer.val, stream_map |-> r.map,
                                   number_of_rows |-> i.number_of_rows]),
                       log |-> r.log]

\* Column::column_id
column_id(col) == col.data_type.column_index

\* Option<Decompressor>: a cursor over the stored bytes, or None.
None == [some |-> FALSE, data |-> [offset |-> 0, length |-> 0]]

Some(d) == [some |-> TRUE, data |-> d]

\* StreamMap::get_opt
get_opt(stream_map, col, kind) ==
    IF <<column_id(col), kind>> \in DOMAIN stream_map
    THEN Some(stream_map[<<column_id(col), kind>>])
    ELSE None

\* StreamMap::get
get(stream_map, col, kind) ==
    LET r == get_opt(stream_map, col, kind)
    IN  IF r.some THEN Ok(r.data) ELSE Fail("InvalidColumn")

\* get_present_vec: the column's Present stream, when the map holds one, is
\* decoded whole (BooleanIter collected into a Vec); decoding may fail.
get_present_vec(col, st, presentDecodes) ==
    LET r == get_opt(st.stream_map, col, "Present")
    IN  IF r.some /\ ~presentDecodes THEN Fail("Io") ELSE Ok(r)

\* array_decoder_factory for an element column of a primitive type: the
\* decoder looks up the optional Present stream and the mandatory Data stream
\* of that column.
array_decoder_factory(child, st) ==
    LET data == get(st.stream_map, child, "Data")
    IN  [res |-> IF data.ok THEN Ok(<<>>) ELSE Fail(data.err),
         lookups |-> <<[column |-> column_id(child), kind |-> "Present"],
                       [column |-> column_id(child), kind |-> "Data"]>>]

\* A faulty variant of ListArrayDecoderNew: the Length stream is fetched
\* before the children are derived.
ListArrayDecoderNewLengthFirst(col, st, presentDecodes) ==
    LET present == get_present_vec(col, st, presentDecodes)
        l1 == <<[column |-> column_id(col), kind |-> "Present"]>>
        reader == get(st.stream_map, col, "Length")
        l2 == Append(l1, [column |-> column_id(col), kind |-> "Length"])
        children == Children(col)
    IN  IF ~present.ok THEN [res |-> Fail(present.err), lookups |-> l1]
        ELSE IF ~reader.ok THEN [res |-> Fail(reader.err), lookups |-> l2]
        ELSE IF ~children.ok THEN [res |-> Fail(children.err), lookups |-> l2]
        ELSE LET inner == array_decoder_factory(children.val[1], st)
             IN  [res |-> inner.res, lookups |-> l2 \o inner.lookups]

\* ListArrayDecoder::new: the Present stream of the column, then its child
\* column and the inner decoder, then the Length stream.
ListArrayDecoderNew(col, st, presentDecodes) ==
    LET present == get_present_vec(col, st, presentDecodes)
        l1 == <<[column |-> column_id(col), kind |-> "Present"]>>
        children == Children(col)
    IN  IF ~present.ok THEN [res |-> Fail(present.err), lookups |-> l1]
        ELSE IF ~children.ok THEN [res |-> Fail(children.err), lookups |-> l1]
        ELSE LET inner == array_decoder_factory(children.val[1], st)
                 l2 == l1 \o inner.lookups
                 reader == get(st.stream_map, col, "Length")
                 l3 == Append(l2, [column |-> column_id(col), kind |-> "Length"])
             IN  IF ~inner.res.ok THEN [res |-> inner.res, lookups |-> l2]
                 ELSE IF ~reader.ok THEN [res |-> Fail(reader.err), lookups |-> l3]
                 ELSE [res |-> Ok(<<>>), lookups |-> l3]

----------------------------------------------------------------------------
(* List decoder: ListArrayDecoder::next_batch *)

\* Option<Vec<bool>> / Option<&[bool]>: a presence mask, or none.
NoMask == [some |-> FALSE, bits |-> <<>>]

Mask(b) == [some |-> TRUE, bits |-> b]

\* Items of the length stream, an Iterator<Item = Result<u64>>.
LenItem(v) == [ok |-> TRUE, v |-> v]

ErrItem == [ok |-> FALSE, v |-> 0]

\* The number of true values among the first k of a mask.
RECURSIVE CountTrue(_, _)
CountTrue(bits, k) ==
    IF k = 0 THEN 0
    ELSE CountTrue(bits, k - 1) + (IF bits[k] THEN 1 ELSE 0)

\* The sum of the first k values of a sequence of numbers.
RECURSIVE SumFirst(_, _)
SumFirst(s, k) == IF k = 0 THEN 0 ELSE SumFirst(s, k - 1) + s[k]

\* derive_present_vec: with an own presence stream, one boolean is pulled for
\* every row the parent marks present (for every row when there is no parent
\* mask) and the rows absent in the parent are absent; without an own stream
\* the mask is the parent's, and there is no mask when there is neither.
derive_present_vec(present, presentPos, parent_present, batch_size) ==
    CASE present.some /\ parent_present.some ->
            [mask |-> Mask([i \in 1..batch_size |->
                              IF parent_present.bits[i]
                              THEN present.bits[presentPos
                                                + CountTrue(parent_present.bits, i)]
                              ELSE FALSE]),
             pos |-> presentPos + CountTrue(parent_present.bits, batch_size)]
      [] present.some /\ ~parent_present.some ->
            [mask |-> Mask([i \in 1..batch_size |-> present.bits[presentPos + i]]),
             pos |-> presentPos + batch_size]
      [] ~present.some /\ parent_present.some ->
            [mask |-> parent_present, pos |-> presentPos]
      [] OTHER -> [mask |-> NoMask, pos |-> presentPos]

\* A faulty variant of elements_to_fetch: the batch size, also under a mask.
elements_to_fetch_batch_size(present, batch_size) == batch_size

\* elements_to_fetch: how many lengths to pull.
elements_to_fetch(present, batch_size) ==
    IF present.some
    THEN CountTrue(present.bits, Len(present.bits))
    ELSE batch_size

\* self.lengths.by_ref().take(n).collect::<Result<Vec<_>>>(): items are pulled
\* until n were taken, the stream ends, or an item is an error (which is
\* consumed and ends the collection with that error).
TakeLengths(lengths, pos, n) ==
    LET m == Min(n, Len(lengths) - pos)
        bad == {k \in 1..m : ~lengths[pos + k].ok}
        first == CHOOSE k \in bad : \A j \in bad : k <= j
    IN  IF bad # {}
        THEN [ok |-> FALSE, vals |-> <<>>, pos |-> pos + first]
        ELSE [ok |-> TRUE, vals |-> [k \in 1..m |-> lengths[pos + k].v],
              pos |-> pos + m]

\* The inner element decoder, a decoder of a primitive column without a
\* presence stream: next_batch(n, parent) yields the next n values of its
\* data stream, or those that are left.
InnerNextBatch(inner, innerPos, n, parent_present) ==
    LET m == Min(n, Len(inner) - innerPos)
    IN  [array |-> SubSeq(inner, innerPos + 1, innerPos + m),
         pos |-> innerPos + m]

\* populate_lengths_with_nulls: under a mask, the pulled length at every
\* present position and zero at every other, in row order (taking a length
\* that was not pulled panics); without a mask, the pulled lengths.
populate_lengths_with_nulls(lengths, batch_size, present) ==
    IF present.some
    THEN IF CountTrue(present.bits, Len(present.bits)) > Len(lengths)
         THEN [panic |-> TRUE, val |-> <<>>]
         ELSE [panic |-> FALSE,
               val |-> [i \in 1..Len(present.bits) |->
                           IF present.bits[i]
                           THEN lengths[CountTrue(present.bits, i)]
                           ELSE 0]]
    ELSE [panic |-> FALSE, val |-> lengths]

\* A faulty variant of from_lengths: the offsets start at the first length.
from_lengths_shifted(lengths) ==
    [i \in 1..Len(lengths) + 1 |-> SumFirst(lengths, Min(i, Len(lengths)))]

\* OffsetBuffer::from_lengths: 0 followed by the running sums.
from_lengths(lengths) ==
    [i \in 1..Len(lengths) + 1 |-> SumFirst(lengths, i - 1)]

\* ListArray::try_new: the last offset must not exceed the child array's
\* length, and a null buffer must have one entry per row.
try_new(offsets, values, nulls) ==
    IF offsets[Len(offsets)] > Len(values) THEN Fail("Arrow")
    ELSE IF nulls.some /\ Len(nulls.bits) # Len(offsets) - 1 THEN Fail("Arrow")
    ELSE Ok([offsets |-> offsets, values |-> values, nulls |-> nulls])

NoArray == [offsets |-> <<0>>, values |-> <<>>, nulls |-> NoMask]

\* ListArrayDecoder::next_batch on decoder self (its stream cursors), in a
\* build with or without debug assertions. The record returned holds the
\* decoder after the call, the outcome ("Ok", "Err" or "Panic") and array,
\* and what the call derived on the way.
next_batch(self, batch_size, parent_present, debug_assertions) ==
    LET p == derive_present_vec(self.present, self.presentPos, parent_present,
                                batch_size)
        present == p.mask
        n == elements_to_fetch(present, batch_size)
        taken == TakeLengths(self.lengths, self.lengthsPos, n)
        self1 == [self EXCEPT !.presentPos = p.pos, !.lengthsPos = taken.pos]
        total_length == SumFirst(taken.vals, Len(taken.vals))
        child == InnerNextBatch(self.inner, self.innerPos, total_length, NoMask)
        self2 == [self1 EXCEPT !.innerPos = child.pos]
        lengths == populate_lengths_with_nulls(taken.vals, batch_size, present)
        offsets == from_lengths(lengths.val)
        array == try_new(offsets, child.array, present)
        call == [batch_size |-> batch_size, parent_present |-> parent_present,
                 present |-> present, elements_to_fetch |-> n,
                 pulled |-> taken.vals, start |-> self.lengthsPos,
                 inner_called |-> FALSE, inner_n |-> 0, inner_parent |-> NoMask,
                 outcome |-> "Err", array |-> NoArray, self |-> self1]
        called == [call EXCEPT !.inner_called = TRUE, !.inner_n = total_length,
                               !.inner_parent = NoMask, !.self = self2]
    IN  IF ~taken.ok THEN call
        ELSE IF debug_assertions /\ Len(taken.vals) # n
        THEN [call EXCEPT !.outcome = "Panic"]
        ELSE IF lengths.panic THEN [called EXCEPT !.outcome = "Panic"]
        ELSE IF ~array.ok THEN called
        ELSE [called EXCEPT !.outcome = "Ok", !.array = array.val]

\* The rows of a list array: row i is null when the null buffer says so, and
\* holds the child values between offsets i and i+1.
Rows(array) ==
    [i \in 1..Len(array.offsets) - 1 |->
        [valid |-> ~array.nulls.some \/ array.nulls.bits[i],
         items |-> SubSeq(array.values, array.offsets[i] + 1, array.offsets[i + 1])]]

NullRow == [valid |-> FALSE, items |-> <<>>]

\* The reference encoding of a list column: a presence stream (which a writer
\* may leave out when no row is null), one length per non-null row, and the
\* elements of all rows in order.
EncodePresent(rows) == [i \in 1..Len(rows) |-> rows[i].valid]

RECURSIVE EncodeLengths(_)
EncodeLengths(rows) ==
    IF rows = <<>> THEN <<>>
    ELSE (IF Head(rows).valid THEN <<LenItem(Len(Head(rows).items))>> ELSE <<>>)
         \o EncodeLengths(Tail(rows))

RECURSIVE EncodeChild(_)
EncodeChild(rows) ==
    IF rows = <<>> THEN <<>>
    ELSE Head(rows).items \o EncodeChild(Tail(rows))

\* The rows with the given shape (-1: a null row, k >= 0: a list of k
\* elements); the elements are numbered in order, from `next` on.
RECURSIVE RowsOfShape(_, _)
RowsOfShape(shape, next) ==
    IF shape = <<>> THEN <<>>
    ELSE IF Head(shape) < 0
         THEN <<NullRow>> \o RowsOfShape(Tail(shape), next)
         ELSE <<[valid |-> TRUE, items |-> [k \in 1..Head(shape) |-> next + k - 1]]>>
              \o RowsOfShape(Tail(shape), next + Head(shape))

----------------------------------------------------------------------------
(* The state machines: one specification per part *)

\* Idle values of the variables of the other parts.
NoColumn ==
    NewColumn("", OrcLeaf("Int"), "footer", 0, [name |-> "", ty |-> [t |-> "Int32"]])

IdleColumn ==
    /\ column = NoColumn
    /\ childrenRes = NotCalled

IdleStripe ==
    /\ info = [offset |-> 0, index_length |-> 0, data_length |-> 0,
               footer_length |-> 0, number_of_rows |-> 0]
    /\ file = [len |-> 0, footer |-> [state |-> "ok", streams |-> <<>>]]
    /\ stripe = NotCalled
    /\ readLog = <<>>
    /\ ctor = [res |-> NotCalled, lookups |-> <<>>, column |-> NoColumn]

NoCall ==
    [batch_size |-> 0, parent_present |-> NoMask, present |-> NoMask,
     elements_to_fetch |-> 0, pulled |-> <<>>, start |-> 0,
     inner_called |-> FALSE, inner_n |-> 0, inner_parent |-> NoMask,
     outcome |-> "None", array |-> NoArray]

NoDecoder ==
    [present |-> NoMask, presentPos |-> 0, lengths |-> <<>>, lengthsPos |-> 0,
     inner |-> <<>>, innerPos |-> 0]

NoHistory ==
    [consumed |-> 0, presentRows |-> 0, rowsAsked |-> 0, healthy |-> TRUE]

IdleList ==
    /\ build = [debug_assertions |-> FALSE]
    /\ decoder = NoDecoder
    /\ last = NoCall
    /\ hist = NoHistory
    /\ rowsIn = <<>>
    /\ out = <<>>

\* Schema resolution.
InitColumn ==
    /\ column \in Columns
    /\ childrenRes = NotCalled
    /\ IdleStripe
    /\ IdleList

\* A call of column.children(); the derivation is pure, so it may be repeated.
CallChildren ==
    /\ childrenRes' = Children(column)
    /\ UNCHANGED column
    /\ UNCHANGED stripeVars
    /\ UNCHANGED listVars

NextColumn == CallChildren

SpecColumn == InitColumn /\ [][NextColumn]_vars

\* Stripe assembly, then the construction of a list decoder.
\* The list columns a decoder is built for: logical List<Int> with column ids
\* 1 (list) and 2 (element), paired with a congruent or a diverging output
\* field.
ListOutputTypes ==
    {[t |-> "List", field |-> f] : f \in ArrowLeafFields}
    \cup {[t |-> "LargeList", field |-> f] : f \in ArrowLeafFields}
    \cup {[t |-> "Int32"], [t |-> "Struct", fields |-> <<>>]}

ListColumns ==
    {NewColumn("l",
               [kind |-> "List", column_index |-> 1,
                child |-> [kind |-> "Int", column_index |-> 2]],
               "footer", 1, [name |-> "l", ty |-> ft]) : ft \in ListOutputTypes}

Footers ==
    {[state |-> "ok", streams |-> ss] : ss \in SeqsUpTo(StreamEntries, MaxStreams)}
    \cup {[state |-> "bad_compression", streams |-> <<>>],
          [state |-> "bad_proto", streams |-> <<>>]}

InitStripe ==
    /\ IdleColumn
    /\ IdleList
    /\ info \in [offset : 0..MaxSection, index_length : 0..MaxSection,
                 data_length : 0..MaxData, footer_length : {1},
                 number_of_rows : {1}]
    /\ \E ft \in Footers :
          file = [len |-> footer_offset(info) + info.footer_length, footer |-> ft]
    /\ stripe = NotCalled
    /\ readLog = <<>>
    /\ ctor = [res |-> NotCalled, lookups |-> <<>>, column |-> NoColumn]

\* Stripe::new, with the request (if any) the storage fails on.
CallStripeNew ==
    /\ stripe = NotCalled
    /\ \E fault \in 0..MaxStreams + 1 :
          \E r \in {StripeNew(info, file, fault)} :
              /\ stripe' = r.res
              /\ readLog' = r.log
    /\ UNCHANGED <<info, file, ctor>>
    /\ UNCHANGED colVars
    /\ UNCHANGED listVars

\* ListArrayDecoder::new on a column of the assembled stripe.
CallListNew ==
    /\ stripe.ok
    /\ ctor.res = NotCalled
    /\ \E col \in ListColumns, presentDecodes \in BOOLEAN :
          \E r \in {ListArrayDecoderNew(col, stripe.val, presentDecodes)} :
              ctor' = [res |-> r.res, lookups |-> r.lookups, column |-> col]
    /\ UNCHANGED <<info, file, stripe, readLog>>
    /\ UNCHANGED colVars
    /\ UNCHANGED listVars

NextStripe == CallStripeNew \/ CallListNew

SpecStripe == InitStripe /\ [][NextStripe]_vars

\* Batch decoding of a list column.
\* Length streams: at most MaxRows lengths, or fewer followed by an error
\* item (nothing is read after an error).
LengthStreams ==
    LET vals == {LenItem(v) : v \in 0..MaxLenVal}
    IN  SeqsUpTo(vals, MaxRows)
        \cup {Append(s, ErrItem) : s \in SeqsUpTo(vals, MaxRows - 1)}

\* The sum of the lengths a stream holds.
RECURSIVE TotalOf(_)
TotalOf(lengths) ==
    IF lengths = <<>> THEN 0 ELSE Head(lengths).v + TotalOf(Tail(lengths))

\* A decoder as ListArrayDecoder::new leaves it, over arbitrary streams: a
\* presence stream or none, a length stream that may be short or end in an
\* error, and an element stream that holds every element the lengths call
\* for, or one less.
InitList ==
    /\ IdleColumn
    /\ IdleStripe
    /\ build \in [debug_assertions : BOOLEAN]
    /\ \E pr \in {NoMask} \cup {Mask(b) : b \in [1..MaxRows -> BOOLEAN]},
          ls \in LengthStreams, short \in 0..1 :
          /\ TotalOf(ls) >= short
          /\ decoder = [present |-> pr, presentPos |-> 0,
                        lengths |-> ls, lengthsPos |-> 0,
                        inner |-> [k \in 1..TotalOf(ls) - short |-> k],
                        innerPos |-> 0]
    /\ last = NoCall
    /\ hist = NoHistory
    /\ rowsIn = <<>>
    /\ out = <<>>

\* One call of next_batch(batch_size, parent_present) and its bookkeeping.
DoNextBatch(batch_size, parent_present) ==
    \E r \in {next_batch(decoder, batch_size, parent_present, build.debug_assertions)} :
    LET rows == IF parent_present.some
                THEN CountTrue(parent_present.bits, batch_size)
                ELSE batch_size
    IN  /\ hist.healthy
        /\ decoder.present.some =>
              decoder.presentPos + rows <= Len(decoder.present.bits)
        /\ decoder' = r.self
        /\ last' = [f \in DOMAIN NoCall |-> r[f]]
        /\ hist' = [consumed |-> hist.consumed + (r.self.lengthsPos - decoder.lengthsPos),
                    presentRows |-> hist.presentRows
                        + (IF r.present.some
                           THEN CountTrue(r.present.bits, Len(r.present.bits))
                           ELSE batch_size),
                    rowsAsked |-> hist.rowsAsked + batch_size,
                    healthy |-> r.outcome = "Ok"]
        /\ out' = IF r.outcome = "Ok" THEN out \o Rows(r.array) ELSE out
        /\ UNCHANGED <<build, rowsIn>>
        /\ UNCHANGED colVars
        /\ UNCHANGED stripeVars

\* next_batch on a decoder that may be nested: any batch size within the
\* rows left, with or without a parent mask.
NextBatch ==
    \E batch_size \in 0..MaxRows - hist.rowsAsked :
        \E parent_present \in {NoMask} \cup {Mask(b) : b \in [1..batch_size -> BOOLEAN]} :
            DoNextBatch(batch_size, parent_present)

NextList == NextBatch

SpecList == InitList /\ [][NextList]_vars

\* A list column of bounded rows, encoded by the reference encoding.
InitRoundTrip ==
    /\ IdleColumn
    /\ IdleStripe
    /\ build \in [debug_assertions : BOOLEAN]
    /\ \E shape \in SeqsUpTo(-1..MaxLenVal, MaxEncodedRows) :
          rowsIn = RowsOfShape(shape, 1)
    /\ \E withPresent \in BOOLEAN :
          /\ (\E i \in 1..Len(rowsIn) : ~rowsIn[i].valid) => withPresent
          /\ decoder = [present |-> IF withPresent THEN Mask(EncodePresent(rowsIn))
                                    ELSE NoMask,
                        presentPos |-> 0,
                        lengths |-> EncodeLengths(rowsIn), lengthsPos |-> 0,
                        inner |-> EncodeChild(rowsIn), innerPos |-> 0]
    /\ last = NoCall
    /\ hist = NoHistory
    /\ out = <<>>

\* next_batch on the top-level column, for some of the rows that remain.
DecodeBatch ==
    \E batch_size \in 0..Len(rowsIn) - hist.rowsAsked :
        DoNextBatch(batch_size, NoMask)

NextRoundTrip == DecodeBatch

SpecRoundTrip == InitRoundTrip /\ [][NextRoundTrip]_vars

----------------------------------------------------------------------------
(* Properties of the schema resolver *)

ChildrenCalled == childrenRes # NotCalled

\* C3: on a logical Struct node, children() fails with MismatchedSchema
\* whenever the output field is not a struct or is a struct of another arity,
\* and returns one child per logical child, paired by position, only when the
\* arities are equal.
C3_StructArityMismatchFails ==
    (ChildrenCalled /\ column.data_type.kind = "Struct") =>
        LET cs == column.data_type.children
            ft == column.field.ty
            congruent == ft.t = "Struct" /\ Len(ft.fields) = Len(cs)
        IN  /\ childrenRes.ok <=> congruent
            /\ ~childrenRes.ok => childrenRes.err = "MismatchedSchema"
            /\ childrenRes.ok =>
                  /\ Len(childrenRes.val) = Len(cs)
                  /\ \A i \in 1..Len(cs) :
                        /\ childrenRes.val[i].name = cs[i].name
                        /\ childrenRes.val[i].data_type = cs[i].data_type
                        /\ childrenRes.val[i].field = ft.fields[i]

\* C4: on a logical Union node, children() succeeds only when the output
\* field is a union with as many variants as the logical union and the output
\* variant at every position i has type id i; in every other case it fails
\* with MismatchedSchema. On success the children are named by their ordinal.
C4_UnionOrdinalsAligned ==
    (ChildrenCalled /\ column.data_type.kind = "Union") =>
        LET vs == column.data_type.variants
            ft == column.field.ty
            aligned == /\ ft.t = "Union"
                       /\ Len(ft.fields) = Len(vs)
                       /\ \A i \in 1..Len(vs) : ft.fields[i].id = i - 1
        IN  /\ childrenRes.ok <=> aligned
            /\ ~childrenRes.ok => childrenRes.err = "MismatchedSchema"
            /\ childrenRes.ok =>
                  /\ Len(childrenRes.val) = Len(vs)
                  /\ \A i \in 1..Len(vs) :
                        childrenRes.val[i].name = IndexName(i - 1)

\* C5: on a logical Map node whose output field is a map, a set sorted flag
\* gives UnsupportedTypeVariant whatever the entry shape (the sorted check
\* comes before the Unexpected errors), and only an unsorted map with a
\* 2-field struct entry gives exactly the children "key" and "value", in
\* that order.
C5_SortedMapUnsupported ==
    (/\ ChildrenCalled
     /\ column.data_type.kind = "Map"
     /\ column.field.ty.t = "Map") =>
        LET ft == column.field.ty
            pair == ft.entries.ty.t = "Struct" /\ Len(ft.entries.ty.fields) = 2
        IN  /\ ft.sorted =>
                  ~childrenRes.ok /\ childrenRes.err = "UnsupportedTypeVariant"
            /\ childrenRes.ok <=> (~ft.sorted /\ pair)
            /\ (~ft.sorted /\ ~pair) =>
                  ~childrenRes.ok /\ childrenRes.err = "Unexpected"
            /\ childrenRes.ok =>
                  /\ Len(childrenRes.val) = 2
                  /\ childrenRes.val[1].name = "key"
                  /\ childrenRes.val[2].name = "value"
                  /\ childrenRes.val[1].data_type = column.data_type.key
                  /\ childrenRes.val[2].data_type = column.data_type.value
                  /\ childrenRes.val[1].field = ft.entries.ty.fields[1]
                  /\ childrenRes.val[2].field = ft.entries.ty.fields[2]

\* C5 witness: a sorted map whose entries are not a struct has been resolved.
C5_Witness ==
    /\ ChildrenCalled
    /\ column.data_type.kind = "Map"
    /\ column.field.ty.t = "Map"
    /\ column.field.ty.sorted
    /\ column.field.ty.entries.ty.t # "Struct"
    /\ childrenRes.err = "UnsupportedTypeVariant"

----------------------------------------------------------------------------
(* Properties of stripe assembly and decoder construction *)

StripeCalled == stripe.err # "NotCalled"

\* The sum of the lengths of the first k entries of a stream directory.
RECURSIVE SumLengths(_, _)
SumLengths(streams, k) ==
    IF k = 0 THEN 0 ELSE SumLengths(streams, k - 1) + streams[k].length

\* A column with the given column id, for looking a stream up.
ColumnWithId(c) ==
    NewColumn("q", [kind |-> "Int", column_index |-> c], "footer", 1,
              [name |-> "q", ty |-> [t |-> "Int32"]])

\* The footer's recorded stream lengths agree with the stripe metadata.
FooterConsistent ==
    SumLengths(file.footer.streams, Len(file.footer.streams))
        = footer_offset(info) - info.offset - info.index_length

\* C6: whenever the sum of the stream lengths recorded in the footer differs
\* from footer_offset() - offset() less the index section, Stripe::new does
\* not return a Stripe.
C6_InconsistentFooterRejected ==
    stripe.ok => FooterConsistent

\* C6 as amended: Stripe::new makes no consistency check. It fails only with
\* Io (a requested range was not served, or the footer did not decompress)
\* or DecodeProto (the footer did not decode); when every requested range is
\* served and the footer deserializes it returns a Stripe, having requested
\* the footer and every stream of the directory.
C6_FailsOnlyOnReadOrDecode ==
    StripeCalled =>
        LET served == \A n \in 1..Len(readLog) : readLog[n].ok
        IN  /\ stripe.ok <=> (served /\ file.footer.state = "ok")
            /\ ~served => stripe.err = "Io"
            /\ (served /\ file.footer.state = "bad_compression") => stripe.err = "Io"
            /\ (served /\ file.footer.state = "bad_proto") => stripe.err = "DecodeProto"
            /\ stripe.ok => Len(readLog) = 1 + Len(file.footer.streams)

\* C6 witness: a Stripe was returned for a footer whose lengths disagree with
\* the metadata.
C6_Witness ==
    stripe.ok /\ ~FooterConsistent

\* The range entry i of the directory is read from.
EntryRange(i) ==
    [offset |-> info.offset + SumLengths(file.footer.streams, i - 1),
     length |-> file.footer.streams[i].length]

\* What C10 says of the ranges read and of the pairs missing from the
\* directory.
RangesInOrderAndAbsentPairs ==
    LET streams == file.footer.streams
        map == stripe.val.stream_map
    IN  /\ Len(readLog) = 1 + Len(streams)
        /\ \A i \in 1..Len(streams) :
              /\ readLog[i + 1].offset = EntryRange(i).offset
              /\ readLog[i + 1].length = EntryRange(i).length
        /\ \A i \in 1..Len(streams) - 1 :
              readLog[i + 2].offset = readLog[i + 1].offset + readLog[i + 1].length
        /\ \A c \in ColumnIds, k \in Kinds :
              (\A i \in 1..Len(streams) :
                  <<streams[i].column, streams[i].kind>> # <<c, k>>) =>
                  /\ get_opt(map, ColumnWithId(c), k) = None
                  /\ get(map, ColumnWithId(c), k) = Fail("InvalidColumn")

\* C10: after a successful Stripe::new, for every entry i of the directory
\* get_opt on its (column, kind) gives the bytes of the range that starts at
\* the stripe offset plus the lengths of the entries before i and has the
\* entry's length; the ranges are read in directory order and are contiguous;
\* a pair not in the directory gives nothing from get_opt and InvalidColumn
\* from get.
C10_EveryEntryMapped ==
    stripe.ok =>
        /\ \A i \in 1..Len(file.footer.streams) :
              get_opt(stripe.val.stream_map,
                      ColumnWithId(file.footer.streams[i].column),
                      file.footer.streams[i].kind) = Some(EntryRange(i))
        /\ RangesInOrderAndAbsentPairs

\* C10 as amended: the same, for every entry that is the last one of the
\* directory with its (column, kind) pair; a later entry with the same pair
\* replaces the earlier one in the map.
C10_LastEntryMapped ==
    stripe.ok =>
        /\ \A i \in 1..Len(file.footer.streams) :
              (\A j \in i + 1..Len(file.footer.streams) :
                  <<file.footer.streams[j].column, file.footer.streams[j].kind>>
                      # <<file.footer.streams[i].column, file.footer.streams[i].kind>>)
              => get_opt(stripe.val.stream_map,
                         ColumnWithId(file.footer.streams[i].column),
                         file.footer.streams[i].kind) = Some(EntryRange(i))
        /\ RangesInOrderAndAbsentPairs

\* C10 witness: a Stripe was assembled from a directory of two distinct
\* pairs, the first stream not empty.
C10_Witness ==
    /\ stripe.ok
    /\ Len(file.footer.streams) = 2
    /\ file.footer.streams[1].length > 0
    /\ <<file.footer.streams[1].column, file.footer.streams[1].kind>>
          # <<file.footer.streams[2].column, file.footer.streams[2].kind>>

\* The lookups of the decoder's construction that found a stream.
StreamsOpened ==
    {n \in 1..Len(ctor.lookups) :
        <<ctor.lookups[n].column, ctor.lookups[n].kind>>
            \in DOMAIN stripe.val.stream_map}

----------------------------------------------------------------------------
(* Properties of the list decoder *)

\* The effective presence mask of the last call: all true without a mask.
EffectiveMask ==
    IF last.present.some THEN last.present.bits
    ELSE [i \in 1..last.batch_size |-> TRUE]

\* C1: for a call with batch size n, effective presence mask p and one length
\* pulled per present row, the offsets have n+1 entries, start at 0, and
\* offsets[i+1] - offsets[i] is the length pulled for row i when p[i] holds
\* and 0 otherwise.
C1_OffsetsFromLengths ==
    (/\ last.outcome = "Ok"
     /\ Len(last.pulled) = CountTrue(EffectiveMask, Len(EffectiveMask))) =>
        LET n == last.batch_size
            p == EffectiveMask
            offsets == last.array.offsets
        IN  /\ Len(p) = n
            /\ Len(offsets) = n + 1
            /\ offsets[1] = 0
            /\ \A k \in 1..Len(last.pulled) :
                  last.pulled[k] = decoder.lengths[last.start + k].v
            /\ \A i \in 1..n :
                  offsets[i + 1] - offsets[i] =
                      IF p[i] THEN last.pulled[CountTrue(p, i)] ELSE 0

\* C1 witness: a batch of two rows, the first null, the second a list of two
\* elements.
C1_Witness ==
    /\ last.outcome = "Ok"
    /\ last.batch_size = 2
    /\ last.present = Mask(<<FALSE, TRUE>>)
    /\ last.pulled = <<2>>
    /\ last.array.offsets = <<0, 0, 2>>

\* C2: after successful calls only, the number of values consumed from the
\* length stream is the number of present rows of all those calls; the last
\* call read the lengths that follow those read before it; and it asked the
\* inner decoder for the sum of its pulled lengths, with no parent mask.
C2_LengthsConsumedPerPresentRow ==
    (hist.healthy /\ last.outcome = "Ok") =>
        /\ hist.consumed = hist.presentRows
        /\ last.start = hist.consumed - Len(last.pulled)
        /\ \A k \in 1..Len(last.pulled) :
              last.pulled[k] = decoder.lengths[last.start + k].v
        /\ last.inner_called
        /\ last.inner_n = SumFirst(last.pulled, Len(last.pulled))
        /\ last.inner_parent = NoMask

\* C8: a call returns a list array only if every one of its
\* elements_to_fetch length pulls succeeded: the stream held that many more
\* items and none of them was an error.
C8_ShortLengthsRejected ==
    last.outcome = "Ok" =>
        \A k \in last.start + 1..last.start + last.elements_to_fetch :
            k <= Len(decoder.lengths) /\ decoder.lengths[k].ok

\* C9: decoding the encoding of a list column in batches gives back its rows:
\* no call fails and the rows decoded so far are the first rows encoded, a
\* null row as null of width 0 and an empty list as a valid row of width 0.
C9_RoundTrip ==
    /\ hist.healthy
    /\ out = SubSeq(rowsIn, 1, hist.rowsAsked)
    /\ \A i \in 1..Len(out) : ~out[i].valid => out[i].items = <<>>

\* C9 witness: the rows [[1, 2], null, [], [3]] were decoded, the last two
\* in one batch.
C9_Witness ==
    /\ rowsIn = <<[valid |-> TRUE, items |-> <<1, 2>>], NullRow,
                  [valid |-> TRUE, items |-> <<>>],
                  [valid |-> TRUE, items |-> <<3>>]>>
    /\ hist.rowsAsked = 4
    /\ last.batch_size = 2
    /\ out = rowsIn
    /\ out[2] # out[3]

====
